---- MODULE Spec2Model ----
(***************************************************************************)
(* The subscription pipeline of FASearchBot: the wait pool, its fetch      *)
(* queue and the stage workers (DataFetcher, MediaDownloader,              *)
(* MediaUploader, Sender).                                                 *)
(*                                                                         *)
(* The program runs on one asyncio event loop.  A wait-pool method never   *)
(* suspends while it holds the pool's lock (nothing else holds the lock    *)
(* across a suspension), so each method is one atomic step; the steps of   *)
(* different workers interleave at the workers' I/O calls.                 *)
(*                                                                         *)
(* A Python dict is a function whose DOMAIN is the dict's key set.         *)
(* submission_state and active_states hold references to CheckState        *)
(* objects; an entry of active_states is either the very object that       *)
(* submission_state holds under the same key (same = TRUE) or another      *)
(* object, kept by value (same = FALSE).                                   *)
(***************************************************************************)
EXTENDS Integers, Sequences, FiniteSets, Bags, TLC

\* ------------------------------------------------------------------ bounds
\* Number of submission ids the poller discovers in a run (ids 1..NumIds).
NumIds == 2
\* Environment failures (HTTP 404, platform errors, worker shutdowns) per run.
MaxFaults == 2

\* --------------------------------------------------------- program constants
NumDataFetchers == 2
NumMediaDownloaders == 2
NumMediaUploaders == 1
SEND_ATTEMPTS == 3

\* Destinations (chats) that hold subscriptions.
Dests == {1, 2}

VARIABLES
    submission_state,      \* WaitPool.submission_state: sub_id -> CheckState
    active_states,         \* WaitPool.active_states: sub_id -> reference
    new_queue,             \* FetchQueue: the "new" tier
    refresh_queue,         \* FetchQueue: the "refresh" tier
    refresh_count,         \* FetchQueue: refresh counter of each id
    max_ready_for_upload,  \* WaitPool.max_ready_for_upload (configuration)
    fetch_refresh_limit,   \* FetchQueue refresh limit (configuration)
    to_add,                \* ids the poller has still to discover, ascending
    data_fetchers,         \* bag of the busy DataFetchers' local states
    downloaders,           \* bag of the sub_ids busy MediaDownloaders hold
    uploaders,             \* bag of the sub_ids busy MediaUploaders hold
    sender,                \* the single Sender's local state
    paused,                \* destinations whose subscriptions are paused
    latest_id,             \* SubscriptionWatcher latest id (0: none yet)
    last_output,           \* history: sub_id of the last completed pass that delivered
    delivered,             \* history: <<sub_id, dest>> -> messages delivered
    submission_cache,      \* sub_ids the submission cache holds an entry for
    faults,                \* environment failures so far
    subscriptions,         \* SubscriptionWatcher.subscriptions: the stored Subscriptions
    reply,                 \* the last command of SubscriptionFunctionality and its reply
    evaluated,             \* the last evaluation of the query engine: inputs and result
    blocklist              \* a DestinationBlocklist: its queries and its cached combined query

pool_vars == <<submission_state, active_states, new_queue, refresh_queue, refresh_count>>
conf_vars == <<max_ready_for_upload, fetch_refresh_limit>>
worker_vars == <<data_fetchers, downloaders, uploaders, sender>>
store_vars == <<subscriptions, reply>>
query_vars == <<evaluated, blocklist>>
vars == <<submission_state, active_states, new_queue, refresh_queue, refresh_count,
          max_ready_for_upload, fetch_refresh_limit, to_add, data_fetchers,
          downloaders, uploaders, sender, paused, latest_id, last_output,
          delivered, submission_cache, faults, subscriptions, reply, evaluated,
          blocklist>>

\* ------------------------------------------------------------ dict helpers
Put(f, k, v) == (k :> v) @@ f
Del(f, k) == [x \in DOMAIN f \ {k} |-> f[x]]

\* A collections.Counter: a missing key counts 0.
Count(f, k) == IF k \in DOMAIN f THEN f[k] ELSE 0
Incr(f, k) == Put(f, k, Count(f, k) + 1)

MinOf(S) == CHOOSE x \in S : \A y \in S : x <= y

\* ------------------------------------------------------ SubmissionCheckState
\* full_data, dl_file, cache_entry: TRUE when set, FALSE when None.
\* matching_subscriptions: the destinations of the matching subscriptions
\* ({} when None).  uploaded_media: "none", "media", or "no_media" (the
\* UploadedMedia without media that handle_deleted builds).
SubmissionCheckState(id) ==
    [sub_id |-> id, full_data |-> FALSE, matching_subscriptions |-> {},
     media_downloading |-> FALSE, dl_file |-> FALSE, media_uploading |-> FALSE,
     cache_entry |-> FALSE, uploaded_media |-> "none", sent_to |-> <<>>]

key(s) == s.sub_id

\* (mutant) a reset that also empties sent_to.
reset_forgets_sent_to(s) == SubmissionCheckState(s.sub_id)

reset(s) ==
    [s EXCEPT !.full_data = FALSE, !.matching_subscriptions = {},
              !.media_downloading = FALSE, !.dl_file = FALSE,
              !.media_uploading = FALSE, !.cache_entry = FALSE,
              !.uploaded_media = "none"]

is_ready_to_send(s) == s.uploaded_media # "none" \/ s.cache_entry

is_ready_for_media_download(s) ==
    s.full_data /\ ~s.dl_file /\ ~s.media_downloading

is_ready_for_media_upload(s) ==
    s.dl_file /\ ~s.media_uploading /\ ~is_ready_to_send(s)

\* ------------------------------------------------------------ references
SameRef == [same |-> TRUE, obj |-> SubmissionCheckState(0)]
OtherRef(s) == [same |-> FALSE, obj |-> s]

\* The object active_states holds under id.
ActiveObj(id) ==
    IF active_states[id].same THEN submission_state[id] ELSE active_states[id].obj

\* active_states once submission_state stops holding the object it held
\* under id: an entry that referred to it keeps the object.
Detach(id) ==
    IF id \in DOMAIN active_states /\ active_states[id].same
    THEN [active_states EXCEPT ![id] = OtherRef(submission_state[id])]
    ELSE active_states

size == Cardinality(DOMAIN submission_state)
size_active == Cardinality(DOMAIN active_states)

\* ------------------------------------------------------------- FetchQueue
\* put_refresh counts the refresh and refuses it once the counter is over
\* the limit.
TooManyRefresh(id) == Count(refresh_count, id) + 1 > fetch_refresh_limit

\* get_nowait: the "new" tier first.
QueueNonEmpty == new_queue # <<>> \/ refresh_queue # <<>>
\* (mutant) a get_nowait that prefers the refresh tier.
QueueHead_refresh_first ==
    IF refresh_queue # << >> THEN Head(refresh_queue) ELSE Head(new_queue)

QueueHead == IF new_queue # <<>> THEN Head(new_queue) ELSE Head(refresh_queue)

\* --------------------------------------------------------------- WaitPool
\* (mutant) a revert that keeps the uploaded media of a known state.
RevertedStates_keeping_upload(id) ==
    IF id \in DOMAIN submission_state
    THEN [submission_state EXCEPT ![id] = [reset(@) EXCEPT !.uploaded_media = submission_state[id].uploaded_media]]
    ELSE Put(submission_state, id, SubmissionCheckState(id))

\* revert_data_fetch up to the re-queue: the state is inserted if missing
\* and reset; active_states is left alone.
RevertedStates(id) ==
    IF id \in DOMAIN submission_state
    THEN [submission_state EXCEPT ![id] = reset(@)]
    ELSE Put(submission_state, id, SubmissionCheckState(id))

\* (mutant) a revert_data_fetch whose refresh is queued whatever the counter.
revert_data_fetch_requeues(id) ==
    /\ submission_state' = RevertedStates(id)
    /\ active_states' = active_states
    /\ refresh_count' = Incr(refresh_count, id)
    /\ refresh_queue' = Append(refresh_queue, id)
    /\ new_queue' = new_queue

\* revert_data_fetch(sub_id).  The reset is done before put_refresh raises
\* TooManyRefresh, so it stays done when the refresh is refused.
revert_data_fetch(id) ==
    /\ submission_state' = RevertedStates(id)
    /\ active_states' = active_states
    /\ refresh_count' = Incr(refresh_count, id)
    /\ refresh_queue' = IF TooManyRefresh(id) THEN refresh_queue
                        ELSE Append(refresh_queue, id)
    /\ new_queue' = new_queue

\* A setter of the pool (set_downloaded, set_cached, set_uploaded): nothing
\* happens when the id is not in submission_state.
InPool(ss, id) == id \in DOMAIN ss

\* (mutant) set_downloaded that leaves media_downloading set.
downloaded_still_downloading(s) == [s EXCEPT !.dl_file = TRUE]

downloaded(s) == [s EXCEPT !.dl_file = TRUE, !.media_downloading = FALSE]
\* (mutant) set_cached that only clears media_uploading.
cached_without_entry(s) == [s EXCEPT !.media_uploading = FALSE]

cached(s) == [s EXCEPT !.cache_entry = TRUE, !.media_uploading = FALSE]
uploaded(s) == [s EXCEPT !.uploaded_media = "media", !.media_uploading = FALSE]
uploaded_no_media(s) == [s EXCEPT !.uploaded_media = "no_media", !.media_uploading = FALSE]

set_downloaded(ss, id) ==
    IF InPool(ss, id) THEN [ss EXCEPT ![id] = downloaded(@)] ELSE ss
set_cached(ss, id) ==
    IF InPool(ss, id) THEN [ss EXCEPT ![id] = cached(@)] ELSE ss
set_uploaded(ss, id) ==
    IF InPool(ss, id) THEN [ss EXCEPT ![id] = uploaded(@)] ELSE ss
set_uploaded_no_media(ss, id) ==
    IF InPool(ss, id) THEN [ss EXCEPT ![id] = uploaded_no_media(@)] ELSE ss

\* ------------------------------------------------------------------ Init
IdleSender == [pc |-> "idle", state |-> SubmissionCheckState(0), todo |-> {},
               dest |-> 0, send_attempt |-> 0]

\* The state after construction, the poller having `ids` to discover.
\* Nothing has been evaluated yet.
NotEvaluated == [kind |-> "none"]

\* No command has been handled yet.
NoReply == [command |-> "none", destination |-> 0, query |-> << >>, result |-> "none"]

InitWith(ids, max_ready, refresh_limit) ==
    /\ submission_state = << >>
    /\ active_states = << >>
    /\ new_queue = << >>
    /\ refresh_queue = << >>
    /\ refresh_count = << >>
    /\ max_ready_for_upload = max_ready
    /\ fetch_refresh_limit = refresh_limit
    /\ to_add = ids
    /\ data_fetchers = EmptyBag
    /\ downloaders = EmptyBag
    /\ uploaders = EmptyBag
    /\ sender = IdleSender
    /\ paused = {}
    /\ latest_id = 0
    /\ last_output = 0
    /\ delivered = << >>
    /\ submission_cache = {}
    /\ faults = 0
    /\ subscriptions = {}
    /\ reply = NoReply
    /\ evaluated = NotEvaluated
    /\ blocklist = [blocklists |-> {}, combined_query |-> [type |-> "none"]]

Init == \E max_ready \in {0, 1} : InitWith([i \in 1..NumIds |-> i], max_ready, 1)

\* ---------------------------------------------------------------- poller
\* WaitPool.add_sub_id: a new state under the id, the id on the "new" tier.
add_sub_id ==
    /\ to_add # << >>
    /\ LET id == Head(to_add) IN
        /\ submission_state' = Put(submission_state, id, SubmissionCheckState(id))
        /\ active_states' = Detach(id)
        /\ new_queue' = Append(new_queue, id)
    /\ to_add' = Tail(to_add)
    /\ UNCHANGED <<refresh_queue, refresh_count, conf_vars, store_vars, query_vars, worker_vars, paused,
                   latest_id, last_output, delivered, submission_cache, faults>>

\* ------------------------------------------------------------ DataFetcher
Busy(workers) == BagCardinality(workers)

\* (mutant) a gate that never closes.
backpressure_never == FALSE

\* (mutant) a gate that closes at the limit already.
backpressure_at_limit == size_active >= max_ready_for_upload

\* The gate of set_fetched_data: an id that is not in active_states waits
\* while size_active() is over the limit.
backpressure == size_active > max_ready_for_upload
GateClosed(id) == id \notin DOMAIN active_states /\ backpressure

\* (mutant) set_fetched_data that leaves the id out of active_states.
FetchedActive_forgets(id) == active_states

\* set_fetched_data past the gate.
FetchedStates(id, matching) ==
    IF id \in DOMAIN submission_state
    THEN [submission_state EXCEPT ![id].full_data = TRUE,
                                  ![id].matching_subscriptions = matching]
    ELSE submission_state
FetchedActive(id) ==
    IF id \in DOMAIN submission_state THEN Put(active_states, id, SameRef)
    ELSE active_states

\* WaitPool.remove_state; a missing id raises ValueError and changes nothing.
remove_state(id) ==
    /\ submission_state' = Del(submission_state, id)
    /\ active_states' = Detach(id)

\* DataFetcher.do_process up to the fetch: an id is taken off the queue.
DataFetcherGet ==
    /\ Busy(data_fetchers) < NumDataFetchers
    /\ QueueNonEmpty
    /\ data_fetchers' = data_fetchers (+)
            SetToBag({[sub_id |-> QueueHead, pc |-> "fetching", matching |-> {}]})
    /\ IF new_queue # << >>
       THEN new_queue' = Tail(new_queue) /\ UNCHANGED refresh_queue
       ELSE refresh_queue' = Tail(refresh_queue) /\ UNCHANGED new_queue
    /\ UNCHANGED <<submission_state, active_states, refresh_count, conf_vars, store_vars, query_vars, to_add,
                   downloaders, uploaders, sender, paused, latest_id, last_output,
                   delivered, submission_cache, faults>>

\* DataFetcher.do_process after the fetch, the subscriptions of the
\* destinations `matching` matching the fetched data: no match removes the
\* state, a match is published with set_fetched_data, which waits at the gate.
DataFetcherCheck(w, matching) ==
    /\ BagIn(w, data_fetchers) /\ w.pc = "fetching"
    /\ IF matching = {}
       THEN /\ data_fetchers' = data_fetchers (-) SetToBag({w})
            /\ remove_state(w.sub_id)
       ELSE IF GateClosed(w.sub_id)
       THEN /\ data_fetchers' = (data_fetchers (-) SetToBag({w})) (+)
                    SetToBag({[w EXCEPT !.pc = "waiting", !.matching = matching]})
            /\ UNCHANGED <<submission_state, active_states>>
       ELSE /\ data_fetchers' = data_fetchers (-) SetToBag({w})
            /\ submission_state' = FetchedStates(w.sub_id, matching)
            /\ active_states' = FetchedActive(w.sub_id)
    /\ UNCHANGED <<new_queue, refresh_queue, refresh_count, conf_vars, store_vars, query_vars, to_add,
                   downloaders, uploaders, sender, paused, latest_id, last_output,
                   delivered, submission_cache, faults>>

\* set_fetched_data leaving its wait: size_active() is within the limit.
\* (size_active() falls only in pop_next_ready_to_send, which pulses the
\* event the waiters wait on.)
DataFetcherResume(w) ==
    /\ BagIn(w, data_fetchers) /\ w.pc = "waiting"
    /\ ~backpressure
    /\ data_fetchers' = data_fetchers (-) SetToBag({w})
    /\ submission_state' = FetchedStates(w.sub_id, w.matching)
    /\ active_states' = FetchedActive(w.sub_id)
    /\ UNCHANGED <<new_queue, refresh_queue, refresh_count, conf_vars, store_vars, query_vars, to_add,
                   downloaders, uploaders, sender, paused, latest_id, last_output,
                   delivered, submission_cache, faults>>

\* Every destination holds one subscription, and the subscriptions have the
\* same query: fetched data matches all of them or none of them, and the
\* paused ones never match.
MatchResults == {{}, Dests \ paused}

\* -------------------------------------------------------- MediaDownloader
states_ready_for_media_download ==
    {id \in DOMAIN active_states : is_ready_for_media_download(ActiveObj(id))}

states_ready_for_media_upload ==
    {id \in DOMAIN active_states : is_ready_for_media_upload(ActiveObj(id))}

\* (mutant) a pick of the highest ready state.
next_state_highest(ready) == CHOOSE id \in ready : \A other \in ready : other <= id

\* The state a get_next_for_media_* call picks among the ready ones.
next_state(ready) == MinOf(ready)

downloading(s) == [s EXCEPT !.media_downloading = TRUE]
uploading(s) == [s EXCEPT !.media_uploading = TRUE]

\* An assignment to a field of the object active_states holds under id.
Mark(s, flag) == IF flag = "media_downloading" THEN downloading(s) ELSE uploading(s)
MarkedStates(id, flag) ==
    IF active_states[id].same THEN [submission_state EXCEPT ![id] = Mark(@, flag)]
    ELSE submission_state
MarkedActive(id, flag) ==
    IF active_states[id].same THEN active_states
    ELSE [active_states EXCEPT ![id].obj = Mark(@, flag)]

\* MediaDownloader.do_process up to the download: get_next_for_media_download
\* marks the lowest ready state; a cache entry is published with set_cached
\* at once, otherwise the download starts.
MediaDownloaderGet ==
    /\ Busy(downloaders) < NumMediaDownloaders
    /\ states_ready_for_media_download # {}
    /\ LET id == next_state(states_ready_for_media_download)
           marked == MarkedStates(id, "media_downloading")
       IN  /\ active_states' = MarkedActive(id, "media_downloading")
           /\ IF id \in submission_cache
              THEN /\ submission_state' = set_cached(marked, id)
                   /\ UNCHANGED downloaders
              ELSE /\ submission_state' = marked
                   /\ downloaders' = downloaders (+) SetToBag({id})
    /\ UNCHANGED <<new_queue, refresh_queue, refresh_count, conf_vars, store_vars, query_vars, to_add,
                   data_fetchers, uploaders, sender, paused, latest_id, last_output,
                   delivered, submission_cache, faults>>

\* The download succeeded: set_downloaded.
MediaDownloaderDone(id) ==
    /\ BagIn(id, downloaders)
    /\ downloaders' = downloaders (-) SetToBag({id})
    /\ submission_state' = set_downloaded(submission_state, id)
    /\ UNCHANGED <<active_states, new_queue, refresh_queue, refresh_count, conf_vars, store_vars, query_vars,
                   to_add, data_fetchers, uploaders, sender, paused, latest_id, last_output,
                   delivered, submission_cache, faults>>

\* handle_deleted(sub_id): the data fetch is reverted and, when the refresh
\* is refused, the UploadedMedia without media is published.
handle_deleted(id) ==
    /\ BagIn(id, downloaders)
    /\ downloaders' = downloaders (-) SetToBag({id})
    /\ submission_state' = IF TooManyRefresh(id)
                           THEN set_uploaded_no_media(RevertedStates(id), id)
                           ELSE RevertedStates(id)
    /\ refresh_count' = Incr(refresh_count, id)
    /\ refresh_queue' = IF TooManyRefresh(id) THEN refresh_queue
                        ELSE Append(refresh_queue, id)
    /\ UNCHANGED <<active_states, new_queue, conf_vars, store_vars, query_vars, to_add, data_fetchers,
                   uploaders, sender, paused, latest_id, last_output, delivered,
                   submission_cache>>

\* The download answered 404.
MediaDownloaderDeleted(id) ==
    /\ faults < MaxFaults
    /\ faults' = faults + 1
    /\ handle_deleted(id)

\* The downloader shut down in the middle of the download: its supervisor
\* calls revert_last_attempt, which reverts the data fetch of last_processed.
MediaDownloaderShutdown(id) ==
    /\ BagIn(id, downloaders)
    /\ faults < MaxFaults
    /\ faults' = faults + 1
    /\ downloaders' = downloaders (-) SetToBag({id})
    /\ revert_data_fetch(id)
    /\ UNCHANGED <<conf_vars, store_vars, query_vars, to_add, data_fetchers, uploaders, sender, paused,
                   latest_id, last_output, delivered, submission_cache>>

\* ---------------------------------------------------------- MediaUploader
\* MediaUploader.do_process up to the upload: get_next_for_media_upload
\* marks the lowest ready state, and raises ValueError when that state has
\* no full_data; a cache entry is published with set_cached at once.
MediaUploaderGet ==
    /\ Busy(uploaders) < NumMediaUploaders
    /\ states_ready_for_media_upload # {}
    /\ LET id == next_state(states_ready_for_media_upload)
           marked == MarkedStates(id, "media_uploading")
       IN  /\ active_states' = MarkedActive(id, "media_uploading")
           /\ IF ~ActiveObj(id).full_data
              THEN /\ submission_state' = marked
                   /\ UNCHANGED uploaders
              ELSE IF id \in submission_cache
              THEN /\ submission_state' = set_cached(marked, id)
                   /\ UNCHANGED uploaders
              ELSE /\ submission_state' = marked
                   /\ uploaders' = uploaders (+) SetToBag({id})
    /\ UNCHANGED <<new_queue, refresh_queue, refresh_count, conf_vars, store_vars, query_vars, to_add,
                   data_fetchers, downloaders, sender, paused, latest_id, last_output,
                   delivered, submission_cache, faults>>

\* The upload succeeded: set_uploaded.
MediaUploaderDone(id) ==
    /\ BagIn(id, uploaders)
    /\ uploaders' = uploaders (-) SetToBag({id})
    /\ submission_state' = set_uploaded(submission_state, id)
    /\ UNCHANGED <<active_states, new_queue, refresh_queue, refresh_count, conf_vars, store_vars, query_vars,
                   to_add, data_fetchers, downloaders, sender, paused, latest_id, last_output,
                   delivered, submission_cache, faults>>

\* The uploader shut down in the middle of the upload: revert_last_attempt.
MediaUploaderShutdown(id) ==
    /\ BagIn(id, uploaders)
    /\ faults < MaxFaults
    /\ faults' = faults + 1
    /\ uploaders' = uploaders (-) SetToBag({id})
    /\ revert_data_fetch(id)
    /\ UNCHANGED <<conf_vars, store_vars, query_vars, to_add, data_fetchers, downloaders, sender, paused,
                   latest_id, last_output, delivered, submission_cache>>

\* ------------------------------------------------------------------ Sender
SeqToSet(q) == {q[i] : i \in DOMAIN q}

\* SubscriptionWatcher.check_subscriptions over the subscriptions matched at
\* fetch time: the paused ones no longer match.
check_subscriptions(matching) == matching \ paused

\* _send_updates: the destinations still to send to, which are those of
\* the subscriptions that still match, less the ones in sent_to.
\* (mutant) a destination map built from the matches of fetch time.
destination_map_unchecked(s) ==
    {d \in s.matching_subscriptions : d \notin SeqToSet(s.sent_to)}

destination_map(s) ==
    {d \in check_subscriptions(s.matching_subscriptions) : d \notin SeqToSet(s.sent_to)}

\* (mutant) pop_next_ready_to_send skipping ahead to the lowest ready state.
next_ready_key_skipping ==
    LET ready == {id \in DOMAIN submission_state : is_ready_to_send(submission_state[id])}
    IN  IF ready = {} THEN MinOf(DOMAIN submission_state) ELSE MinOf(ready)

\* The state pop_next_ready_to_send looks at.
next_ready_key == MinOf(DOMAIN submission_state)

\* Sender.do_process up to the first send.  pop_next_ready_to_send returns
\* nothing when the pool is empty or its lowest state is not ready (the
\* Sender then sleeps QUEUE_BACKOFF and do_process starts again); it raises KeyError, after deleting the
\* state from submission_state, when the id is not in active_states.
\* _send_updates raises on a state without full_data; otherwise it maps the
\* destinations of the subscriptions that still match.
SenderPop ==
    /\ sender.pc \in {"idle", "backoff"}
    /\ IF submission_state = << >> \/ ~is_ready_to_send(submission_state[next_ready_key])
       THEN /\ sender' = [sender EXCEPT !.pc = "backoff"]
            /\ UNCHANGED <<submission_state, active_states>>
       ELSE LET id == next_ready_key
                popped == submission_state[id]
            IN  /\ submission_state' = Del(submission_state, id)
                /\ IF id \notin DOMAIN active_states
                   THEN /\ sender' = [sender EXCEPT !.pc = "failed"]
                        /\ UNCHANGED active_states
                   ELSE /\ active_states' = Del(active_states, id)
                        /\ sender' =
                             IF popped.full_data
                             THEN [pc |-> "sending", state |-> popped,
                                   todo |-> destination_map(popped),
                                   dest |-> 0, send_attempt |-> 0]
                             ELSE [sender EXCEPT !.pc = "failed", !.state = popped]
    /\ UNCHANGED <<new_queue, refresh_queue, refresh_count, conf_vars, store_vars, query_vars, to_add,
                   data_fetchers, downloaders, uploaders, paused, latest_id, last_output,
                   delivered, submission_cache, faults>>

\* One pass of the loop of _try_send_subscription_update is about to run
\* for destination d.
Attempting(d) ==
    /\ sender.pc = "sending"
    /\ \/ sender.dest = 0 /\ d \in sender.todo
       \/ sender.dest = d

\* The Sender's state after _try_send_subscription_update returned.
DestinationDone(s, d) ==
    [sender EXCEPT !.state = s, !.todo = @ \ {d}, !.dest = 0, !.send_attempt = 0]

\* (mutant) a pass of the loop that ends the tries for the destination.
NextAttempt_gives_up(d) == DestinationDone(sender.state, d)

\* The Sender's state after a pass of the loop that ended in `continue` or
\* fell through to the loop's end.
NextAttempt(d) ==
    IF sender.send_attempt + 1 < SEND_ATTEMPTS
    THEN [sender EXCEPT !.dest = d, !.send_attempt = @ + 1]
    ELSE DestinationDone(sender.state, d)

Sent(s, d) == [s EXCEPT !.sent_to = Append(@, d)]

\* Failures met by a send that gets past the state's cache entry:
\* cache_entry.try_to_send answered False.
CacheTryFailed == IF sender.state.cache_entry THEN 1 ELSE 0

\* _send_subscription_update sent the state's cache entry.
SenderSendCached(d) ==
    /\ Attempting(d)
    /\ sender.state.cache_entry
    /\ sender' = DestinationDone(Sent(sender.state, d), d)
    /\ delivered' = Incr(delivered, <<sender.state.sub_id, d>>)
    /\ UNCHANGED <<pool_vars, conf_vars, store_vars, query_vars, to_add, data_fetchers, downloaders, uploaders,
                   paused, latest_id, last_output, submission_cache, faults>>

\* No uploaded media, the entry load_cache found was sent: set_cached.
SenderSendFreshCache(d) ==
    /\ Attempting(d)
    /\ sender.state.uploaded_media = "none"
    /\ sender.state.sub_id \in submission_cache
    /\ faults + CacheTryFailed <= MaxFaults
    /\ faults' = faults + CacheTryFailed
    /\ submission_state' = set_cached(submission_state, sender.state.sub_id)
    /\ sender' = DestinationDone(Sent(sender.state, d), d)
    /\ delivered' = Incr(delivered, <<sender.state.sub_id, d>>)
    /\ UNCHANGED <<active_states, new_queue, refresh_queue, refresh_count, conf_vars, store_vars, query_vars,
                   to_add, data_fetchers, downloaders, uploaders, paused, latest_id, last_output,
                   submission_cache>>

\* No uploaded media and no cache entry that could be sent: MediaMissing.
\* The handler reverts the data fetch and the loop goes on; a refused
\* refresh (TooManyRefresh) leaves the handler as an exception.
SenderMediaMissing(d) ==
    /\ Attempting(d)
    /\ sender.state.uploaded_media = "none"
    /\ faults + CacheTryFailed <= MaxFaults
    /\ faults' = faults + CacheTryFailed
    /\ revert_data_fetch(sender.state.sub_id)
    /\ sender' = IF TooManyRefresh(sender.state.sub_id)
                 THEN [sender EXCEPT !.pc = "failed"]
                 ELSE NextAttempt(d)
    /\ UNCHANGED <<conf_vars, store_vars, query_vars, to_add, data_fetchers, downloaders, uploaders, paused,
                   latest_id, last_output, delivered, submission_cache>>

\* send_message sent the uploaded media; the result is saved in the cache.
SenderSendUpload(d) ==
    /\ Attempting(d)
    /\ sender.state.uploaded_media # "none"
    /\ faults + CacheTryFailed <= MaxFaults
    /\ faults' = faults + CacheTryFailed
    /\ sender' = DestinationDone(Sent(sender.state, d), d)
    /\ delivered' = Incr(delivered, <<sender.state.sub_id, d>>)
    /\ submission_cache' = submission_cache \cup {sender.state.sub_id}
    /\ UNCHANGED <<pool_vars, conf_vars, store_vars, query_vars, to_add, data_fetchers, downloaders, uploaders,
                   paused, latest_id, last_output>>

\* send_message failed with an error of the platform.
SendFails(d) ==
    /\ Attempting(d)
    /\ sender.state.uploaded_media # "none"
    /\ faults + CacheTryFailed + 1 <= MaxFaults
    /\ faults' = faults + CacheTryFailed + 1

\* (mutant) a blocked destination that is tried again.
AfterBlocked_retries(d) == NextAttempt(d)

\* The Sender's state after the handler of a blocked destination returned.
AfterBlocked(d) == DestinationDone(sender.state, d)

\* UserIsBlocked, InputUserDeactivated, ChannelPrivate, PeerIdInvalid: the
\* subscriptions of the destination are paused.
SenderBlocked(d) ==
    /\ SendFails(d)
    /\ paused' = paused \cup {d}
    /\ sender' = AfterBlocked(d)
    /\ UNCHANGED <<pool_vars, conf_vars, store_vars, query_vars, to_add, data_fetchers, downloaders, uploaders,
                   latest_id, last_output, delivered, submission_cache>>

\* FloodWaitError: the Sender sleeps and the loop goes on.
SenderFloodWait(d) ==
    /\ SendFails(d)
    /\ sender' = NextAttempt(d)
    /\ UNCHANGED <<pool_vars, conf_vars, store_vars, query_vars, to_add, data_fetchers, downloaders, uploaders,
                   paused, latest_id, last_output, delivered, submission_cache>>

\* FilePartMissing: the data fetch is reverted and
\* _try_send_subscription_update returns.
SenderFilePartMissing(d) ==
    /\ SendFails(d)
    /\ revert_data_fetch(sender.state.sub_id)
    /\ sender' = IF TooManyRefresh(sender.state.sub_id)
                 THEN [sender EXCEPT !.pc = "failed"]
                 ELSE DestinationDone(sender.state, d)
    /\ UNCHANGED <<conf_vars, store_vars, query_vars, to_add, data_fetchers, downloaders, uploaders, paused,
                   latest_id, last_output, delivered, submission_cache>>

\* Any other exception, or a shutdown, in the middle of a send: it leaves
\* do_process.
SenderFail(d) ==
    /\ SendFails(d)
    /\ sender' = [sender EXCEPT !.pc = "failed"]
    /\ UNCHANGED <<pool_vars, conf_vars, store_vars, query_vars, to_add, data_fetchers, downloaders, uploaders,
                   paused, latest_id, last_output, delivered, submission_cache>>

\* Sender.revert_last_attempt, called by the supervisor after do_process
\* failed.  return_populated_state is a coroutine function and the call is
\* not awaited: the coroutine object is dropped and its body never runs.
revert_last_attempt ==
    /\ sender.pc = "failed"
    /\ sender' = IdleSender
    /\ UNCHANGED <<pool_vars, conf_vars, store_vars, query_vars, to_add, data_fetchers, downloaders, uploaders,
                   paused, latest_id, last_output, delivered, submission_cache, faults>>

\* Sender.do_process after _send_updates returned: the latest id is updated.
SenderFinish ==
    /\ sender.pc = "sending" /\ sender.todo = {} /\ sender.dest = 0
    /\ latest_id' = sender.state.sub_id
    /\ last_output' = IF sender.state.sent_to # << >> THEN sender.state.sub_id ELSE last_output
    /\ sender' = IdleSender
    /\ UNCHANGED <<pool_vars, conf_vars, store_vars, query_vars, to_add, data_fetchers, downloaders, uploaders,
                   paused, delivered, submission_cache, faults>>

\* ------------------------------------------------------------- pipeline
Next ==
    \/ add_sub_id
    \/ DataFetcherGet
    \/ \E w \in BagToSet(data_fetchers) : \E matching \in MatchResults :
            DataFetcherCheck(w, matching)
    \/ \E w \in BagToSet(data_fetchers) : DataFetcherResume(w)
    \/ MediaDownloaderGet
    \/ \E id \in BagToSet(downloaders) : MediaDownloaderDone(id)
    \/ \E id \in BagToSet(downloaders) : MediaDownloaderDeleted(id)
    \/ \E id \in BagToSet(downloaders) : MediaDownloaderShutdown(id)
    \/ MediaUploaderGet
    \/ \E id \in BagToSet(uploaders) : MediaUploaderDone(id)
    \/ \E id \in BagToSet(uploaders) : MediaUploaderShutdown(id)
    \/ SenderPop
    \/ \E d \in Dests : SenderSendCached(d)
    \/ \E d \in Dests : SenderSendFreshCache(d)
    \/ \E d \in Dests : SenderMediaMissing(d)
    \/ \E d \in Dests : SenderSendUpload(d)
    \/ \E d \in Dests : SenderBlocked(d)
    \/ \E d \in Dests : SenderFloodWait(d)
    \/ \E d \in Dests : SenderFilePartMissing(d)
    \/ \E d \in Dests : SenderFail(d)
    \/ revert_last_attempt
    \/ SenderFinish

Spec == Init /\ [][Next]_vars

\* ------------------------------------------------------------- scenarios
\* Scenario 5 of the specification: ids 10, 11 and 12, the subscriptions
\* match 11 and 12 only, max_ready_for_upload = 1, and nothing fails.  (No
\* call of set_fetched_data waits here, so the end of a wait is no step.)
ScenarioMatching(id) == IF id = 10 THEN {} ELSE Dests

InitC6 == InitWith(<<10, 11, 12>>, 1, 2)

NextC6 ==
    \/ add_sub_id
    \/ DataFetcherGet
    \/ \E w \in BagToSet(data_fetchers) : DataFetcherCheck(w, ScenarioMatching(w.sub_id))
    \/ MediaDownloaderGet
    \/ \E id \in BagToSet(downloaders) : MediaDownloaderDone(id)
    \/ MediaUploaderGet
    \/ \E id \in BagToSet(uploaders) : MediaUploaderDone(id)
    \/ SenderPop
    \/ \E d \in Dests : SenderSendUpload(d)
    \/ SenderFinish

SpecC6 == InitC6 /\ [][NextC6]_vars

\* Scenario 6 of the specification: every media download answers 404 and
\* fetch_refresh_limit = 2.  (The Sender never gets to a send here, so the
\* sends are no steps.)
MediaDownloaderAlwaysDeleted(id) == handle_deleted(id) /\ UNCHANGED faults

InitC9 == InitWith(<<10, 11, 12>>, 1, 2)

NextC9 ==
    \/ add_sub_id
    \/ DataFetcherGet
    \/ \E w \in BagToSet(data_fetchers) : DataFetcherCheck(w, Dests)
    \/ \E w \in BagToSet(data_fetchers) : DataFetcherResume(w)
    \/ MediaDownloaderGet
    \/ \E id \in BagToSet(downloaders) : MediaDownloaderAlwaysDeleted(id)
    \/ SenderPop
    \/ revert_last_attempt

SpecC9 == InitC9 /\ [][NextC9]_vars

\* Scenario 7 of the specification: sends are answered with flood-waits,
\* any number of times, and nothing else fails.
SenderFloodWaitAgain(d) ==
    /\ Attempting(d)
    /\ sender.state.uploaded_media # "none"
    /\ sender' = NextAttempt(d)
    /\ UNCHANGED <<pool_vars, conf_vars, store_vars, query_vars, to_add, data_fetchers, downloaders, uploaders,
                   paused, latest_id, last_output, delivered, submission_cache, faults>>

InitC17 == InitWith(<<10, 11, 12>>, 1, 2)

NextC17 ==
    \/ add_sub_id
    \/ DataFetcherGet
    \/ \E w \in BagToSet(data_fetchers) : DataFetcherCheck(w, Dests)
    \/ \E w \in BagToSet(data_fetchers) : DataFetcherResume(w)
    \/ MediaDownloaderGet
    \/ \E id \in BagToSet(downloaders) : MediaDownloaderDone(id)
    \/ MediaUploaderGet
    \/ \E id \in BagToSet(uploaders) : MediaUploaderDone(id)
    \/ SenderPop
    \/ \E d \in Dests : SenderSendUpload(d)
    \/ \E d \in Dests : SenderFloodWaitAgain(d)
    \/ SenderFinish

SpecC17 == InitC17 /\ [][NextC17]_vars

\* The pipeline in which a send may be answered with file-part-missing
\* (the handle of the uploaded media is no longer valid) and nothing else
\* fails.
InitC26 == \E max_ready \in {0, 1} : InitWith(<<1, 2>>, max_ready, 2)

NextC26 ==
    \/ add_sub_id
    \/ DataFetcherGet
    \/ \E w \in BagToSet(data_fetchers) : DataFetcherCheck(w, Dests)
    \/ \E w \in BagToSet(data_fetchers) : DataFetcherResume(w)
    \/ MediaDownloaderGet
    \/ \E id \in BagToSet(downloaders) : MediaDownloaderDone(id)
    \/ MediaUploaderGet
    \/ \E id \in BagToSet(uploaders) : MediaUploaderDone(id)
    \/ SenderPop
    \/ \E d \in Dests : SenderSendUpload(d)
    \/ \E d \in Dests : SenderFilePartMissing(d)
    \/ revert_last_attempt
    \/ SenderFinish

SpecC26 == InitC26 /\ [][NextC26]_vars

\* The pipeline with fetch_refresh_limit = 3 and media downloads that may
\* answer 404 any number of times, besides the other failures.
InitC18 == \E max_ready \in {0, 1} : InitWith(<<1, 2>>, max_ready, 3)

NextC18 ==
    \/ Next
    \/ \E id \in BagToSet(downloaders) : MediaDownloaderAlwaysDeleted(id)

SpecC18 == InitC18 /\ [][NextC18]_vars

\* The pipeline without failures while users remove or pause subscriptions
\* or change blocklists: the subscription of destination d stops matching.
SubscriptionStops(d) ==
    /\ d \notin paused
    /\ paused' = paused \cup {d}
    /\ UNCHANGED <<pool_vars, conf_vars, store_vars, query_vars, to_add, worker_vars, latest_id, last_output,
                   delivered, submission_cache, faults>>

InitC19 == InitWith(<<1, 2, 3>>, 1, 1)

NextC19 ==
    \/ add_sub_id
    \/ DataFetcherGet
    \/ \E w \in BagToSet(data_fetchers) : \E matching \in MatchResults :
            DataFetcherCheck(w, matching)
    \/ \E w \in BagToSet(data_fetchers) : DataFetcherResume(w)
    \/ MediaDownloaderGet
    \/ \E id \in BagToSet(downloaders) : MediaDownloaderDone(id)
    \/ MediaUploaderGet
    \/ \E id \in BagToSet(uploaders) : MediaUploaderDone(id)
    \/ SenderPop
    \/ \E d \in Dests : SenderSendUpload(d)
    \/ SenderFinish
    \/ \E d \in Dests : SubscriptionStops(d)

SpecC19 == InitC19 /\ [][NextC19]_vars

\* The pipeline with every failure of Spec, in which a send may also be
\* answered with a flood-wait any number of times.
InitC36 == \E max_ready \in {0, 1} : InitWith(<<1, 2>>, max_ready, 1)

NextC36 ==
    \/ Next
    \/ \E d \in Dests : SenderFloodWaitAgain(d)

SpecC36 == InitC36 /\ [][NextC36]_vars

\* The pipeline with nothing failing: every fetch, download, upload and send
\* succeeds, and every worker that can take a step eventually takes it (each
\* worker is a task that loops over do_process while it runs).
IdsC33 == {1, 2, 3}

InitC33 == \E max_ready \in {0, 1} : InitWith(<<1, 2, 3>>, max_ready, 1)

DataFetcherChecks ==
    \E w \in BagToSet(data_fetchers) : \E matching \in MatchResults : DataFetcherCheck(w, matching)
DataFetcherResumes == \E w \in BagToSet(data_fetchers) : DataFetcherResume(w)
MediaDownloaderDownloads == \E id \in BagToSet(downloaders) : MediaDownloaderDone(id)
MediaUploaderUploads == \E id \in BagToSet(uploaders) : MediaUploaderDone(id)
SenderSends == \E d \in Dests : SenderSendUpload(d)

NextC33 ==
    \/ add_sub_id
    \/ DataFetcherGet
    \/ DataFetcherChecks
    \/ DataFetcherResumes
    \/ MediaDownloaderGet
    \/ MediaDownloaderDownloads
    \/ MediaUploaderGet
    \/ MediaUploaderUploads
    \/ SenderPop
    \/ SenderSends
    \/ SenderFinish

FairC33 ==
    /\ WF_vars(add_sub_id)
    /\ WF_vars(DataFetcherGet)
    /\ WF_vars(DataFetcherChecks)
    /\ WF_vars(DataFetcherResumes)
    /\ WF_vars(MediaDownloaderGet)
    /\ WF_vars(MediaDownloaderDownloads)
    /\ WF_vars(MediaUploaderGet)
    /\ WF_vars(MediaUploaderUploads)
    /\ WF_vars(SenderPop)
    /\ WF_vars(SenderSends)
    /\ WF_vars(SenderFinish)

SpecC33 == InitC33 /\ [][NextC33]_vars /\ FairC33

\* ------------------------------------------------------- the pool alone
\* The wait pool driven through its methods in any order: a caller adds
\* ids, publishes fetched data and uploads, reverts and removes states, pops
\* the next ready state, sends it (as the Sender does) and either finishes
\* with it, drops it, or hands it back with return_populated_state.
return_populated_state(state) ==
    /\ submission_state' = Put(submission_state, state.sub_id, state)
    /\ active_states' = IF state.full_data
                        THEN Put(active_states, state.sub_id, SameRef)
                        ELSE Detach(state.sub_id)

PoolIds == {1, 2}

InitPool == InitWith(<<1, 2>>, 1, 1)

PoolSetFetchedData(id) ==
    /\ id \in DOMAIN submission_state
    /\ ~GateClosed(id)
    /\ submission_state' = FetchedStates(id, Dests)
    /\ active_states' = FetchedActive(id)
    /\ UNCHANGED <<new_queue, refresh_queue, refresh_count, conf_vars, store_vars, query_vars, to_add,
                   worker_vars, paused, latest_id, last_output, delivered,
                   submission_cache, faults>>

PoolRevertDataFetch(id) ==
    /\ faults < MaxFaults
    /\ faults' = faults + 1
    /\ revert_data_fetch(id)
    /\ UNCHANGED <<conf_vars, store_vars, query_vars, to_add, worker_vars, paused, latest_id, last_output,
                   delivered, submission_cache>>

PoolRemoveState(id) ==
    /\ id \in DOMAIN submission_state
    /\ remove_state(id)
    /\ UNCHANGED <<new_queue, refresh_queue, refresh_count, conf_vars, store_vars, query_vars, to_add,
                   worker_vars, paused, latest_id, last_output, delivered,
                   submission_cache, faults>>

PoolSetUploaded(id) ==
    /\ id \in DOMAIN submission_state
    /\ submission_state[id].uploaded_media = "none"
    /\ submission_state' = set_uploaded(submission_state, id)
    /\ UNCHANGED <<active_states, new_queue, refresh_queue, refresh_count, conf_vars, store_vars, query_vars,
                   to_add, worker_vars, paused, latest_id, last_output, delivered,
                   submission_cache, faults>>

PoolReturn ==
    /\ sender.pc \in {"sending", "failed"}
    /\ sender.state.sub_id # 0
    /\ return_populated_state(sender.state)
    /\ sender' = IdleSender
    /\ UNCHANGED <<new_queue, refresh_queue, refresh_count, conf_vars, store_vars, query_vars, to_add,
                   data_fetchers, downloaders, uploaders, paused, latest_id,
                   last_output, delivered, submission_cache, faults>>

NextPool ==
    \/ add_sub_id
    \/ \E id \in PoolIds : PoolSetFetchedData(id)
    \/ \E id \in PoolIds : PoolRevertDataFetch(id)
    \/ \E id \in PoolIds : PoolRemoveState(id)
    \/ \E id \in PoolIds : PoolSetUploaded(id)
    \/ SenderPop
    \/ \E d \in Dests : SenderSendUpload(d)
    \/ SenderFinish
    \/ revert_last_attempt
    \/ PoolReturn

SpecPool == InitPool /\ [][NextPool]_vars

\* The pool driven through its methods with max_ready_for_upload = 0: one
\* active state fills the gate.
InitC35 == InitWith(<<1, 2>>, 0, 1)

SpecC35 == InitC35 /\ [][NextPool]_vars

\* ================================================================== claims
\* Every CheckState object the wait pool holds.
PoolObjects ==
    {submission_state[id] : id \in DOMAIN submission_state}
        \cup {ActiveObj(id) : id \in DOMAIN active_states}

\* The Sender starts do_process (it is idle or asleep after an empty pop).
SenderPolling == sender.pc \in {"idle", "backoff"}

\* C1: any two consecutive successful Sender outputs have strictly
\* increasing sub_id.  An output is a pass of do_process that delivered the
\* submission to a destination and ran to its end; the pass that ends here
\* must carry a sub_id above the one of the output before it.
C1_OutputsStrictlyIncreasing ==
    [][(sender.pc = "sending" /\ sender'.pc = "idle" /\ sender.state.sent_to # << >>)
           => sender.state.sub_id > last_output]_vars

\* C2: a state returned by pop_next_ready_to_send had the minimum key of
\* submission_state and was ready to send; when the state with the minimum
\* key is not ready to send, nothing is returned and nothing is changed,
\* even if states with larger keys are ready.
C2_PopMinimumReady ==
    [][SenderPolling =>
        /\ (sender'.state # sender.state =>
                /\ sender'.state.sub_id \in DOMAIN submission_state
                /\ sender'.state = submission_state[sender'.state.sub_id]
                /\ \A k \in DOMAIN submission_state : sender'.state.sub_id <= k
                /\ sender'.state.uploaded_media # "none" \/ sender'.state.cache_entry)
        /\ ((\E k \in DOMAIN submission_state :
                /\ \A j \in DOMAIN submission_state : k <= j
                /\ submission_state[k].uploaded_media = "none"
                /\ ~submission_state[k].cache_entry)
            /\ sender' # sender
              => sender'.pc = "backoff" /\ sender'.state = sender.state
                 /\ UNCHANGED pool_vars)]_vars

\* C2 witness: the Sender got nothing from the pool although a state with a
\* larger key than the unready lowest one is ready to send.
C2_Witness ==
    /\ sender.pc = "backoff"
    /\ \E k, j \in DOMAIN submission_state :
        /\ \A i \in DOMAIN submission_state : k <= i
        /\ ~is_ready_to_send(submission_state[k])
        /\ j > k /\ is_ready_to_send(submission_state[j])

\* C3: every id in active_states is also in submission_state.
C3_ActiveSubsetOfPool == DOMAIN active_states \subseteq DOMAIN submission_state

\* C4 as stated: a CheckState is in active_states if and only if its
\* full_data is set.
C4_ActiveIffFullData ==
    /\ \A id \in DOMAIN active_states : ActiveObj(id).full_data
    /\ \A id \in DOMAIN submission_state :
           submission_state[id].full_data => id \in DOMAIN active_states

\* C4 amended: every CheckState of submission_state whose full_data is set
\* is the object active_states holds under its id (revert_data_fetch clears
\* full_data and keeps the entry, so the converse fails).
C4_FullDataIsActive ==
    \A id \in DOMAIN submission_state :
        submission_state[id].full_data =>
            id \in DOMAIN active_states /\ active_states[id].same

C4_Witness ==
    \E id \in DOMAIN submission_state :
        submission_state[id].full_data /\ submission_state[id].dl_file

\* C5: while size_active() > max_ready_for_upload, set_fetched_data for an
\* id that is not in active_states does not return and does not add the id
\* to active_states: in a step taken with size_active() over the limit no
\* id enters active_states and no waiting call ends.
C5_Backpressure ==
    [][Cardinality(DOMAIN active_states) > max_ready_for_upload =>
        /\ DOMAIN active_states' \subseteq DOMAIN active_states
        /\ \A w \in BagToSet(data_fetchers) :
              w.pc = "waiting" => CopiesIn(w, data_fetchers') >= CopiesIn(w, data_fetchers)
        /\ \A w \in BagToSet(data_fetchers) :
              (w.pc = "fetching" /\ w.sub_id \notin DOMAIN active_states
                 /\ w.sub_id \in DOMAIN submission_state
                 /\ CopiesIn(w, data_fetchers') < CopiesIn(w, data_fetchers))
              => \/ w.sub_id \notin DOMAIN submission_state'
                 \/ \E m \in SUBSET Dests :
                        BagIn([w EXCEPT !.pc = "waiting", !.matching = m], data_fetchers')]_vars

\* C5 witness: a set_fetched_data call is waiting with size_active() over
\* the limit.
C5_Witness ==
    /\ Cardinality(DOMAIN active_states) > max_ready_for_upload
    /\ \E w \in BagToSet(data_fetchers) :
          w.pc = "waiting" /\ w.sub_id \notin DOMAIN active_states

\* C7: the Sender delivers a submission to a destination at most once, also
\* when the submission is reverted and passes through the pipeline again.
C7_DeliveredAtMostOnce == \A p \in DOMAIN delivered : delivered[p] <= 1

\* C8: revert_last_attempt returns the state the Sender holds to the wait
\* pool: after it the state is in submission_state, and in active_states
\* when its full_data is set.
C8_RevertReturnsState ==
    [][(sender.pc = "failed" /\ sender'.pc = "idle" /\ sender.state.sub_id # 0) =>
        /\ sender.state.sub_id \in DOMAIN submission_state'
        /\ (sender.state.full_data => sender.state.sub_id \in DOMAIN active_states')]_vars

\* C10: no CheckState has media_downloading and media_uploading both true.
C10_NotDownloadingAndUploading ==
    \A s \in PoolObjects : ~(s.media_downloading /\ s.media_uploading)

\* C10 witness: one state is being uploaded while another is being
\* downloaded.
C10_Witness ==
    \E s, u \in PoolObjects : s.media_uploading /\ s.dl_file /\ u.media_downloading

\* C6 as stated: after the DataFetcher dropped 10 and published 11, its
\* set_fetched_data for 12 returns only once a MediaDownloader has picked
\* 11 (and the Sender emits 11 before 12).
Picked(id) ==
    \/ id \notin DOMAIN submission_state
    \/ submission_state[id].media_downloading
    \/ submission_state[id].dl_file

EmittedInOrder ==
    (sender.state.sub_id = 12 \/ latest_id = 12) =>
        \A d \in Dests : Count(delivered, <<11, d>>) = 1

C6_BlocksUntilPicked ==
    [][/\ (10 \notin DOMAIN submission_state /\ 11 \in DOMAIN active_states
             /\ 12 \notin DOMAIN active_states /\ 12 \in DOMAIN active_states')
          => Picked(11)
       /\ EmittedInOrder]_vars

\* C6 amended: in that scenario no set_fetched_data call waits (with 11
\* alone in active_states, size_active() = 1 is not over the limit 1), and
\* the Sender emits 11 before 12.
C6_NoWaitInOrder ==
    /\ \A w \in BagToSet(data_fetchers) : w.pc # "waiting"
    /\ EmittedInOrder

\* C6 witness: 10 was dropped, 11 and 12 are published and no
\* MediaDownloader has picked 11 yet.
C6_Witness ==
    /\ 10 \notin DOMAIN submission_state /\ Len(to_add) = 0
    /\ 11 \in DOMAIN active_states /\ 12 \in DOMAIN active_states
    /\ ~Picked(11)

\* C9: with 404 on every download and fetch_refresh_limit = 2 an id goes
\* through exactly two refresh cycles and is then delivered by the Sender
\* as a send without media: the state that carries the UploadedMedia without
\* media has had two refreshes queued and a third refused, and the Sender,
\* once it holds that state, sends it.
C9_TwoRefreshesThenTextOnlySend ==
    /\ \A s \in PoolObjects \cup {sender.state} :
          s.uploaded_media = "no_media" =>
              Count(refresh_count, s.sub_id) = fetch_refresh_limit + 1
    /\ sender.state.uploaded_media = "no_media" => sender.pc = "sending"

\* C11: a CheckState has uploaded_media or cache_entry set only if its
\* dl_file is set or the value came from the submission cache (a cache hit
\* followed by set_cached).
HeldObjects == PoolObjects \cup {sender.state}

C11_ReadyOnlyAfterDownload ==
    \A s \in HeldObjects :
        /\ s.uploaded_media # "none" => s.dl_file
        /\ s.cache_entry => (s.dl_file \/ s.sub_id \in submission_cache)

\* C11 with the UploadedMedia without media, which handle_deleted publishes
\* on purpose for a state it has just reset, left aside: uploaded_media with
\* media is set only on a state whose dl_file is set, cache_entry only on a
\* state whose dl_file is set or whose id is in the submission cache.
C11_ReadyOnlyAfterDownloadOrNoMedia ==
    \A s \in HeldObjects :
        /\ s.uploaded_media = "media" => s.dl_file
        /\ s.cache_entry => (s.dl_file \/ s.sub_id \in submission_cache)

\* C12: sent_to only grows and never holds a destination twice: in the state
\* kept under an id (unless add_sub_id or return_populated_state puts another
\* object there), through reset and revert_data_fetch, in the state the
\* Sender holds, and as the state moves from the pool to the Sender.
IsPrefix(p, q) == Len(p) <= Len(q) /\ SubSeq(q, 1, Len(p)) = p

NoDuplicate(q) == \A i, j \in 1..Len(q) : q[i] = q[j] => i = j

Returned(id) ==
    /\ sender.state.sub_id = id /\ sender'.pc = "idle"
    /\ id \in DOMAIN submission_state' /\ submission_state'[id] = sender.state

C12_SentToAppendOnly ==
    [][/\ \A id \in DOMAIN submission_state \cap DOMAIN submission_state' :
              (to_add' = to_add /\ ~Returned(id)) =>
                  IsPrefix(submission_state[id].sent_to, submission_state'[id].sent_to)
       /\ (sender.state.sub_id # 0 /\ sender'.state.sub_id = sender.state.sub_id)
              => IsPrefix(sender.state.sent_to, sender'.state.sent_to)
       /\ (sender'.state.sub_id # 0 /\ sender'.state.sub_id # sender.state.sub_id)
              => sender'.state.sent_to = submission_state[sender'.state.sub_id].sent_to
       /\ \A s \in HeldObjects : NoDuplicate(s.sent_to)]_vars

\* C12 witness: a state that was sent to a destination, handed back to the
\* pool and reverted there still names the destination.
C12_Witness ==
    \E id \in DOMAIN submission_state :
        /\ submission_state[id].sent_to # << >>
        /\ ~submission_state[id].full_data
        /\ Count(refresh_count, id) > 0

\* C13: a set_fetched_data call that publishes a refresh (the id was
\* reverted with revert_data_fetch and fetched again) never waits at the
\* gate: no DataFetcher waits there with an id that has been reverted.
C13_RefreshSkipsBackpressure ==
    \A w \in BagToSet(data_fetchers) :
        w.pc = "waiting" => Count(refresh_count, w.sub_id) = 0

\* C14: put_refresh(id) adds one to the refresh counter of id and queues the
\* id unless the counter then exceeds fetch_refresh_limit, in which case it
\* fails with TooManyRefresh and queues nothing; nothing else queues a
\* refresh.  So an id is queued for refresh fetch_refresh_limit times at most.
Requeued(id) == refresh_queue' = Append(refresh_queue, id)

C14_RefreshLimit ==
    [][/\ \A id \in DOMAIN refresh_count' :
              Count(refresh_count', id) # Count(refresh_count, id) =>
                  /\ Count(refresh_count', id) = Count(refresh_count, id) + 1
                  /\ Requeued(id) <=> Count(refresh_count', id) <= fetch_refresh_limit
       /\ Len(refresh_queue') > Len(refresh_queue) => refresh_count' # refresh_count]_vars

\* C14 witness: a refresh was refused.
C14_Witness ==
    \E id \in DOMAIN refresh_count :
        /\ refresh_count[id] > fetch_refresh_limit
        /\ id \notin SeqToSet(refresh_queue)

\* C15: get_nowait hands out the oldest id of the new tier when that tier is
\* not empty, otherwise the oldest id of the refresh tier: the id a
\* DataFetcher starts on is the head of the new tier, or the head of the
\* refresh tier with the new tier empty, and it leaves that tier.
Handed(w) ==
    /\ w.pc = "fetching"
    /\ data_fetchers' = data_fetchers (+) SetToBag({w})

C15_NewBeforeRefresh ==
    [][\A w \in BagToSet(data_fetchers') : Handed(w) =>
          IF new_queue # << >>
          THEN /\ w.sub_id = Head(new_queue)
               /\ new_queue' = Tail(new_queue)
               /\ refresh_queue' = refresh_queue
          ELSE /\ refresh_queue # << >>
               /\ w.sub_id = Head(refresh_queue)
               /\ refresh_queue' = Tail(refresh_queue)
               /\ new_queue' = new_queue]_vars

\* C15 witness: a DataFetcher was handed a new id while a refresh is queued.
C15_Witness ==
    /\ refresh_queue # << >>
    /\ \E w \in BagToSet(data_fetchers) :
          w.pc = "fetching" /\ Count(refresh_count, w.sub_id) = 0

\* C16: when a send to destination d is answered blocked, deactivated,
\* private or invalid, the subscriptions of d are paused, d is not added to
\* sent_to, nothing is delivered, and d is not tried again for the
\* submission the Sender holds.
C16_BlockedPausesDestination ==
    [][/\ \A d \in paused' \ paused :
              /\ sender.pc = "sending" /\ (sender.dest = d \/ d \in sender.todo)
              /\ sender'.state.sent_to = sender.state.sent_to
              /\ d \notin SeqToSet(sender'.state.sent_to)
              /\ delivered' = delivered
       /\ \A d \in paused' :
              sender'.pc = "sending" => (sender'.dest # d /\ d \notin sender'.todo)]_vars

\* C16 witness: the Sender holds a submission that matched a destination
\* which is now paused, and goes on with another destination.
C16_Witness ==
    /\ sender.pc = "sending" /\ sender.todo # {}
    /\ \E d \in paused : d \in sender.state.matching_subscriptions

\* A send of the submission the Sender holds to destination d was answered
\* with a flood-wait: a try was used up and nothing else changed.
FloodWaited(d) ==
    /\ sender.pc = "sending" /\ sender'.pc = "sending"
    /\ sender.dest = d \/ (sender.dest = 0 /\ d \in sender.todo)
    /\ sender'.state = sender.state
    /\ delivered' = delivered /\ paused' = paused /\ refresh_count' = refresh_count
    /\ \/ sender'.dest = d /\ sender'.send_attempt = sender.send_attempt + 1
       \/ sender'.dest = 0 /\ sender'.todo = sender.todo \ {d}

\* The Sender starts no other submission while it is in the middle of the
\* tries for a destination (the flood-wait sleep included).
NoOtherStarted ==
    (sender.pc = "sending" /\ sender.dest # 0) =>
        (sender'.state.sub_id = sender.state.sub_id /\ sender'.pc # "idle")

\* C17 as stated: after a flood-wait on destination d the Sender tries d
\* again for the same submission, and starts no other submission meanwhile.
C17_FloodWaitRetries ==
    [][/\ \A d \in Dests : FloodWaited(d) => sender'.dest = d
       /\ NoOtherStarted]_vars

\* C17 amended: the Sender tries d again unless the flood-wait answered the
\* last of the SEND_ATTEMPTS tries; then d is given up for this submission
\* without being added to sent_to.
C17_FloodWaitRetriesWithinAttempts ==
    [][/\ \A d \in Dests : FloodWaited(d) =>
              IF sender.send_attempt + 1 < SEND_ATTEMPTS
              THEN sender'.dest = d /\ d \in sender'.todo
              ELSE d \notin sender'.todo /\ d \notin SeqToSet(sender'.state.sent_to)
       /\ NoOtherStarted]_vars

\* C17 witness: the Sender is between two tries for a destination while
\* another submission is ready in the pool.
C17_Witness ==
    /\ sender.pc = "sending" /\ sender.dest # 0 /\ sender.send_attempt > 0
    /\ \E id \in DOMAIN submission_state : is_ready_to_send(submission_state[id])

\* C18: latest_id never decreases: every update by the Sender sets it to a
\* sub_id that is at least the value it had.
C18_LatestIdMonotone == [][latest_id' >= latest_id]_vars

\* C19: the Sender sends a submission only for the subscriptions that still
\* match when it starts on the submission: the destinations it then sets out
\* to send to hold none whose subscription has stopped matching since the
\* fetch, it adds none later, and it delivers to those destinations only.
SenderStarts == sender.pc \in {"idle", "backoff"} /\ sender'.pc = "sending"

C19_SendsOnlyStillMatching ==
    [][/\ SenderStarts => sender'.todo \cap paused = {}
       /\ (sender.pc = "sending" /\ sender'.pc = "sending")
              => (sender'.todo \subseteq sender.todo /\ sender'.dest \in sender.todo \cup {0, sender.dest})
       /\ delivered' # delivered =>
              \E d \in sender.todo \cup {sender.dest} :
                  delivered' = Incr(delivered, <<sender.state.sub_id, d>>)]_vars

\* C19 witness: the Sender has started on a submission that matched, at
\* fetch time, a destination whose subscription stopped matching since, and
\* does not send to that destination.
C19_Witness ==
    /\ sender.pc = "sending" /\ sender.dest = 0 /\ sender.todo # {}
    /\ sender.state.sent_to = << >>
    /\ \E d \in paused : d \in sender.state.matching_subscriptions /\ d \notin sender.todo

\* ---------------------------------------------------------------- subscription store
\* The query strings the commands are given, as sequences of characters:
\* the empty argument, words in several letter cases, and a lone bracket.
QueryStrings ==
    {<< >>, <<"f">>, <<"F">>, <<"c">>, <<"f", "c">>, <<"F", "c">>, <<"F", "C">>, <<"(">>}

\* str.casefold, character by character.
casefold_char(c) == CASE c = "F" -> "f" [] c = "C" -> "c" [] OTHER -> c

casefold_identity(query_str) == query_str

casefold(query_str) == [i \in DOMAIN query_str |-> casefold_char(query_str[i])]

\* parse_query raises InvalidQueryException: the grammar needs at least one
\* element, and a bracket is no character of a word.
parse_query_fails(query_str) ==
    query_str = << >> \/ \E i \in DOMAIN query_str : query_str[i] \in {"(", ")"}

Subscription(query_str, destination) ==
    [destination |-> destination, query_str |-> query_str]

Subscription_eq_any_destination(a, b) ==
    casefold(a.query_str) = casefold(b.query_str)

\* Subscription.__eq__ (and __hash__, which hashes the same pair).
Subscription_eq(a, b) ==
    casefold(a.query_str) = casefold(b.query_str) /\ a.destination = b.destination

\* sub in self.watcher.subscriptions
Contains(store, sub) == \E s \in store : Subscription_eq(s, sub)

Replied(command, destination, query, result) ==
    reply' = [command |-> command, destination |-> destination, query |-> query,
              result |-> result]

\* SubscriptionWatcher.add_subscription: insert if absent, Duplicate if present.
add_subscription(sub) ==
    /\ ~Contains(subscriptions, sub)
    /\ subscriptions' = subscriptions \cup {sub}

\* SubscriptionWatcher.remove_subscription: remove by identity.
remove_subscription(sub) ==
    /\ Contains(subscriptions, sub)
    /\ subscriptions' = {s \in subscriptions : ~Subscription_eq(s, sub)}

\* SubscriptionFunctionality._add_sub
add_sub(destination, query) ==
    /\ IF query = << >>
       THEN Replied("add_subscription", destination, query, "NoQuery")
            /\ UNCHANGED subscriptions
       ELSE IF parse_query_fails(query)
       THEN Replied("add_subscription", destination, query, "InvalidQuery")
            /\ UNCHANGED subscriptions
       ELSE IF Contains(subscriptions, Subscription(query, destination))
       THEN Replied("add_subscription", destination, query, "Duplicate")
            /\ UNCHANGED subscriptions
       ELSE add_subscription(Subscription(query, destination))
            /\ Replied("add_subscription", destination, query, "Added")
    /\ UNCHANGED <<pool_vars, conf_vars, query_vars, to_add, worker_vars, paused, latest_id,
                   last_output, delivered, submission_cache, faults>>

\* SubscriptionFunctionality._remove_sub: the Subscription is built before the
\* try, so an InvalidQueryException leaves the handler.
remove_sub(destination, query) ==
    /\ IF parse_query_fails(query)
       THEN Replied("remove_subscription", destination, query, "InvalidQuery")
            /\ UNCHANGED subscriptions
       ELSE IF Contains(subscriptions, Subscription(query, destination))
       THEN remove_subscription(Subscription(query, destination))
            /\ Replied("remove_subscription", destination, query, "Removed")
       ELSE Replied("remove_subscription", destination, query, "NotFound")
            /\ UNCHANGED subscriptions
    /\ UNCHANGED <<pool_vars, conf_vars, query_vars, to_add, worker_vars, paused, latest_id,
                   last_output, delivered, submission_cache, faults>>

\* The commands of one chat session against the store; the pipeline is idle.
InitStore == InitWith(<< >>, 1, 1)

NextStore ==
    \/ \E destination \in Dests, query \in QueryStrings : add_sub(destination, query)
    \/ \E destination \in Dests, query \in QueryStrings : remove_sub(destination, query)

SpecStore == InitStore /\ [][NextStore]_vars

\* ---------------------------------------------------------------- query engine
MaxPosition == 2
MaxLocations == 2

FieldLocations == {"title_0", "keyword_0"}

\* MatchLocation(field, start_position, end_position)
MatchLocation(field, start_position, end_position) ==
    [field |-> field, start_position |-> start_position, end_position |-> end_position]

\* Every MatchLocation with 0 <= start_position <= end_position <= MaxPosition.
MatchLocations ==
    {l \in {MatchLocation(f, s, e) : f \in FieldLocations, s \in 0..MaxPosition, e \in 0..MaxPosition} :
        l.start_position <= l.end_position}

overlaps_ignoring_field(self, location) ==
    IF self.start_position < location.start_position
    THEN self.end_position > location.start_position
    ELSE location.end_position > self.start_position

\* MatchLocation.overlaps
overlaps(self, location) ==
    IF self.field # location.field
    THEN FALSE
    ELSE IF self.start_position < location.start_position
    THEN self.end_position > location.start_position
    ELSE location.end_position > self.start_position

\* MatchLocation.overlaps_any
overlaps_any(self, locations) == \E location \in locations : overlaps(self, location)

\* The locations match_locations returns: each is a regex match of a pattern
\* that holds at least one character, so it is not empty; a query yields a
\* list that is read only with any(), modelled as a set.
FoundLocations == {l \in MatchLocations : l.start_position < l.end_position}

LocationLists == {L \in SUBSET FoundLocations : Cardinality(L) <= MaxLocations}

\* ExceptionQuery.matches_submission, given word.match_locations(sub) and
\* exception.match_locations(sub).
ExceptionQuery_matches_submission(word_locations, exception_locations) ==
    \E location \in word_locations : ~overlaps_any(location, exception_locations)

\* The words of queries and of submissions.
Words == {"fox", "cat"}

WordQuery(word) == [type |-> "word", word |-> word]
NotQuery(sub_query) == [type |-> "not", sub_query |-> sub_query]
AndQuery(sub_queries) == [type |-> "and", sub_queries |-> sub_queries]
NoQuery == [type |-> "none"]

\* Query.matches_submission of WordQuery, NotQuery and AndQuery; sub is the
\* set of words of the QueryTarget.
RECURSIVE matches_submission(_, _)
matches_submission(query, sub) ==
    CASE query.type = "word" -> query.word \in sub
      [] query.type = "not" -> ~matches_submission(query.sub_query, sub)
      [] query.type = "and" -> \A q \in query.sub_queries : matches_submission(q, sub)

\* DestinationBlocklist.as_combined_query of a blocklist with these queries.
as_combined_query(blocklists) == AndQuery({NotQuery(WordQuery(word)) : word \in blocklists})

matches_result_when_paused(sub_paused, query, result, blocklist_query) ==
    IF blocklist_query # NoQuery
    THEN matches_submission(query, result) /\ matches_submission(blocklist_query, result)
    ELSE matches_submission(query, result)

\* Subscription.matches_result
matches_result(sub_paused, query, result, blocklist_query) ==
    IF sub_paused
    THEN FALSE
    ELSE IF blocklist_query # NoQuery
    THEN matches_submission(query, result) /\ matches_submission(blocklist_query, result)
    ELSE matches_submission(query, result)

\* One evaluation in a behaviour: the functions evaluated keep no state.
Evaluated(record) ==
    /\ evaluated = NotEvaluated
    /\ evaluated' = record
    /\ UNCHANGED <<pool_vars, conf_vars, store_vars, to_add, worker_vars, paused, latest_id,
                   last_output, delivered, submission_cache, faults, blocklist>>

EvalOverlaps(a, b) ==
    Evaluated([kind |-> "overlaps", result |-> overlaps(a, b), a |-> a, b |-> b])

EvalException(word_locations, exception_locations) ==
    Evaluated([kind |-> "exception",
               result |-> ExceptionQuery_matches_submission(word_locations, exception_locations),
               word_locations |-> word_locations,
               exception_locations |-> exception_locations])

\* One subscription checked against one submission: the destination has a
\* blocklist or none.
EvalMatchesResult(sub_paused, word, has_blocklist, blocklists, result) ==
    /\ has_blocklist \/ blocklists = {}
    /\ Evaluated([paused |-> sub_paused, kind |-> "matches_result",
                  result |-> matches_result(sub_paused, WordQuery(word), result,
                                            IF has_blocklist THEN as_combined_query(blocklists)
                                            ELSE NoQuery),
                  word |-> word, blocklists |-> blocklists, has_blocklist |-> has_blocklist,
                  target |-> result])

InitQuery == InitWith(<< >>, 1, 1)

NextQuery ==
    \/ \E a \in MatchLocations, b \in MatchLocations : EvalOverlaps(a, b)
    \/ \E word_locations \in LocationLists, exception_locations \in LocationLists :
           EvalException(word_locations, exception_locations)
    \/ \E sub_paused \in BOOLEAN, word \in Words, has_blocklist \in BOOLEAN,
          blocklists \in SUBSET Words, result \in SUBSET Words :
           EvalMatchesResult(sub_paused, word, has_blocklist, blocklists, result)

SpecQuery == InitQuery /\ [][NextQuery]_vars

\* ---------------------------------------------------- DestinationBlocklist
\* The queries a blocklist is given, and the words of the targets it is
\* asked about.
BlockQueries == {"fox", "cat", "dog"}

\* (mutant) an add that keeps the cached combined query.
DestinationBlocklist_add_keeping_combined(self, query) ==
    [blocklists |-> self.blocklists \cup {query}, combined_query |-> self.combined_query]

\* DestinationBlocklist.add: the dict gets the parsed query under its string
\* and the cached combined query is dropped.
DestinationBlocklist_add(self, query) ==
    [blocklists |-> self.blocklists \cup {query}, combined_query |-> NoQuery]

\* DestinationBlocklist.remove of a query the dict holds.
DestinationBlocklist_remove(self, query) ==
    [blocklists |-> self.blocklists \ {query}, combined_query |-> NoQuery]

\* DestinationBlocklist.as_combined_query: built from the dict only when no
\* combined query is cached.
DestinationBlocklist_as_combined_query(self) ==
    IF self.combined_query = NoQuery
    THEN as_combined_query(self.blocklists)
    ELSE self.combined_query

BlocklistAdd(query) ==
    /\ blocklist' = DestinationBlocklist_add(blocklist, query)
    /\ UNCHANGED <<pool_vars, conf_vars, store_vars, to_add, worker_vars, paused, latest_id,
                   last_output, delivered, submission_cache, faults, evaluated>>

\* del raises KeyError for a query the dict does not hold: nothing changes.
BlocklistRemove(query) ==
    /\ query \in blocklist.blocklists
    /\ blocklist' = DestinationBlocklist_remove(blocklist, query)
    /\ UNCHANGED <<pool_vars, conf_vars, store_vars, to_add, worker_vars, paused, latest_id,
                   last_output, delivered, submission_cache, faults, evaluated>>

\* as_combined_query() is called and the query it returns is matched against
\* a target; the call stores the query it built.
BlocklistCombined(target) ==
    LET combined == DestinationBlocklist_as_combined_query(blocklist)
    IN  /\ blocklist' = [blocklist EXCEPT !.combined_query = combined]
        /\ evaluated' = [kind |-> "combined", result |-> matches_submission(combined, target),
                         blocklists |-> blocklist.blocklists, target |-> target]
        /\ UNCHANGED <<pool_vars, conf_vars, store_vars, to_add, worker_vars, paused,
                       latest_id, last_output, delivered, submission_cache, faults>>

InitBlocklist == InitWith(<< >>, 1, 1)

NextBlocklist ==
    \/ \E query \in BlockQueries : BlocklistAdd(query)
    \/ \E query \in BlockQueries : BlocklistRemove(query)
    \/ \E target \in SUBSET BlockQueries : BlocklistCombined(target)

SpecBlocklist == InitBlocklist /\ [][NextBlocklist]_vars

\* Two query strings that are equal up to the case of their letters.
CaseVariants(a, b) ==
    /\ Len(a) = Len(b)
    /\ \A i \in DOMAIN a :
           a[i] = b[i] \/ {a[i], b[i]} \in {{"f", "F"}, {"c", "C"}}

\* A step in which _add_sub handled this command with a query that parses.
AddHandled(d, q) ==
    /\ reply'.command = "add_subscription" /\ reply'.destination = d /\ reply'.query = q
    /\ reply'.result \notin {"NoQuery", "InvalidQuery"}
    /\ reply' # reply \/ subscriptions' # subscriptions

\* C20: adding a subscription inserts it iff no stored subscription has the
\* same destination and a query string equal up to letter case; otherwise
\* the reply is Duplicate and the store is unchanged. So a query differing
\* only in case at the same destination is a duplicate, and the same query
\* at another destination is not.
C20_AddIffNoSameIdentity ==
    [][\A d \in Dests, q \in QueryStrings :
           AddHandled(d, q) =>
               IF \E s \in subscriptions : s.destination = d /\ CaseVariants(s.query_str, q)
               THEN reply'.result = "Duplicate" /\ subscriptions' = subscriptions
               ELSE /\ reply'.result = "Added"
                    /\ subscriptions' = subscriptions \cup {[destination |-> d, query_str |-> q]}]_vars

\* A query differing only in case from a stored one was refused at its
\* destination while the same query string is stored at the other destination.
C20_Witness ==
    /\ reply.command = "add_subscription" /\ reply.result = "Duplicate"
    /\ \E s \in subscriptions :
           /\ s.destination = reply.destination
           /\ s.query_str # reply.query /\ CaseVariants(s.query_str, reply.query)
    /\ \E s \in subscriptions :
           s.destination # reply.destination /\ s.query_str = reply.query

\* A step in which _remove_sub handled this command with a query that parses.
RemoveHandled(d, q) ==
    /\ reply'.command = "remove_subscription" /\ reply'.destination = d /\ reply'.query = q
    /\ reply'.result # "InvalidQuery"
    /\ reply' # reply \/ subscriptions' # subscriptions

SameIdentity(s, d, q) == s.destination = d /\ CaseVariants(s.query_str, q)

\* C21: removing a subscription takes the stored subscription with the same
\* destination and a query string equal up to letter case out of the store,
\* and nothing else; when there is none the reply is NotFound and the store
\* is unchanged. After a removal no subscription of that identity is stored,
\* so removing it again is NotFound.
C21_RemoveByIdentity ==
    [][\A d \in Dests, q \in QueryStrings :
           RemoveHandled(d, q) =>
               IF \E s \in subscriptions : SameIdentity(s, d, q)
               THEN /\ reply'.result = "Removed"
                    /\ subscriptions' = {s \in subscriptions : ~SameIdentity(s, d, q)}
                    /\ subscriptions' # subscriptions
               ELSE /\ reply'.result = "NotFound"
                    /\ subscriptions' = subscriptions]_vars

\* A removal was refused at a destination that stores no subscription of
\* that query while the other destination stores the very same query string.
C21_Witness ==
    /\ reply.command = "remove_subscription" /\ reply.result = "NotFound"
    /\ \E s \in subscriptions :
           s.destination # reply.destination /\ s.query_str = reply.query
    /\ \E s \in subscriptions : s.destination = reply.destination

\* The half-open ranges [start_position, end_position) of two locations
\* have a position in common.
RangesIntersect(a, b) ==
    \E p \in 0..MaxPosition :
        /\ a.start_position <= p /\ p < a.end_position
        /\ b.start_position <= p /\ p < b.end_position

C24_OverlapsIffIntersectNonEmpty ==
    (/\ evaluated.kind = "overlaps"
     /\ evaluated.a \in FoundLocations /\ evaluated.b \in FoundLocations) =>
        /\ evaluated.result = (evaluated.a.field = evaluated.b.field
                                   /\ RangesIntersect(evaluated.a, evaluated.b))
        /\ evaluated.result = overlaps(evaluated.b, evaluated.a)

\* C23: Exception(w, e) matches a target iff some match location of w in
\* the target overlaps no match location of e in the same FieldLocation,
\* two locations overlapping when their half-open ranges intersect.
C23_ExceptionMatches ==
    evaluated.kind = "exception" =>
        evaluated.result =
            \E w \in evaluated.word_locations :
                \A e \in evaluated.exception_locations :
                    ~(w.field = e.field /\ RangesIntersect(w, e))

\* The exception matched although one of the word's locations is overlapped
\* by an exception location, and an exception location of another
\* FieldLocation covers the same positions as the location that matched.
C23_Witness ==
    /\ evaluated.kind = "exception" /\ evaluated.result
    /\ \E w \in evaluated.word_locations, e \in evaluated.exception_locations :
           w.field = e.field /\ RangesIntersect(w, e)
    /\ \E w \in evaluated.word_locations, e \in evaluated.exception_locations :
           /\ w.field # e.field /\ RangesIntersect(w, e)
           /\ \A x \in evaluated.exception_locations :
                  ~(w.field = x.field /\ RangesIntersect(w, x))

\* C22: a subscription matches a submission iff it is not paused, its query
\* matches the submission and no blocklist query of its destination matches
\* the submission (the combined blocklist query matches it).
C22_MatchesIffNotPausedAndNotBlocked ==
    evaluated.kind = "matches_result" =>
        evaluated.result =
            (/\ ~evaluated.paused
             /\ evaluated.word \in evaluated.target
             /\ evaluated.blocklists \cap evaluated.target = {})

\* A subscription that is not paused and whose query matches was rejected
\* because one of the two blocklist queries of its destination matches.
C22_Witness ==
    /\ evaluated.kind = "matches_result" /\ ~evaluated.result
    /\ ~evaluated.paused /\ evaluated.word \in evaluated.target
    /\ evaluated.has_blocklist /\ Cardinality(evaluated.blocklists) = 2
    /\ Cardinality(evaluated.blocklists \cap evaluated.target) = 1

\* A step of the wait-pool harness that is a call of revert_data_fetch(id).
RevertCalled(id) ==
    /\ faults' # faults
    /\ Count(refresh_count', id) = Count(refresh_count, id) + 1

\* What revert_data_fetch(id) does to the pool apart from the fetch queue:
\* the state of id is there, with every per-stage field cleared and the
\* sent_to it had (none for an unknown id); the same ids are active.
RevertResets(id) ==
    /\ id \in DOMAIN submission_state'
    /\ submission_state'[id] =
           [SubmissionCheckState(id) EXCEPT
                !.sent_to = IF id \in DOMAIN submission_state
                            THEN submission_state[id].sent_to ELSE << >>]
    /\ \A other \in DOMAIN submission_state' \ {id} :
           other \in DOMAIN submission_state /\ submission_state'[other] = submission_state[other]
    /\ DOMAIN active_states' = DOMAIN active_states
    /\ new_queue' = new_queue

RevertedInPass ==
    sender.pc = "sending" /\ sender.state.sub_id \in DOMAIN submission_state

\* A step of the Sender that calls revert_data_fetch.
SenderReverts ==
    sender.pc = "sending" /\ sender' # sender /\ refresh_count' # refresh_count

\* C26: a send that fails with file-part-missing makes the Sender call
\* revert_data_fetch for the submission once and bail out of it: in a pass in
\* which the submission has been reverted there is no further revert and no
\* further delivery.
C26_FilePartMissingBails ==
    [][/\ SenderReverts =>
              refresh_count' = Incr(refresh_count, sender.state.sub_id)
       /\ RevertedInPass =>
              (delivered' = delivered /\ refresh_count' = refresh_count)]_vars

\* A step in which the Sender handles MediaMissing: the state it was given
\* has no uploaded media and no cache entry could be sent.
MediaMissingHandled == SenderReverts /\ sender.state.uploaded_media = "none"

\* C27: on MediaMissing the Sender calls revert_data_fetch for the
\* submission once (its refresh counter goes up by one) and bails out: it
\* makes no further send attempt for the submission in this pass, neither to
\* the same destination nor to another one, and does not revert it again.
C27_MediaMissingBails ==
    [][/\ MediaMissingHandled =>
              /\ refresh_count' = Incr(refresh_count, sender.state.sub_id)
              /\ sender'.pc = "sending" => (sender'.dest = 0 /\ sender'.todo = {})
       /\ (RevertedInPass /\ sender.state.uploaded_media = "none") => ~SenderReverts]_vars

\* The step of do_process in which the Sender updates latest_id and
\* latest_observed: _send_updates has returned.
LatestUpdated == sender.pc = "sending" /\ sender'.pc = "idle"

\* C28: the Sender updates latest_id for a submission only after it has been
\* sent to all of its destinations, that is to the destination of every
\* subscription that still matches; not when a destination was left out
\* because the submission was reverted or the destination abandoned.
C28_LatestOnlyAfterAllSent ==
    [][LatestUpdated =>
           /\ latest_id' = sender.state.sub_id
           /\ \A d \in check_subscriptions(sender.state.matching_subscriptions) :
                  d \in SeqToSet(sender.state.sent_to)]_vars

\* A step in which get_next_for_media_download (resp. upload) hands out the
\* active state of id: its media_downloading (resp. media_uploading) is set.
DownloadHanded(id) ==
    /\ id \in DOMAIN active_states /\ id \in DOMAIN active_states'
    /\ ~ActiveObj(id).media_downloading /\ ActiveObj(id)'.media_downloading

UploadHanded(id) ==
    /\ id \in DOMAIN active_states /\ id \in DOMAIN active_states'
    /\ ~ActiveObj(id).media_uploading /\ ActiveObj(id)'.media_uploading

CacheHit(id) ==
    /\ id \in submission_cache
    /\ \/ DownloadHanded(id)
       \/ UploadHanded(id) /\ ActiveObj(id).full_data

\* C30: a MediaDownloader or MediaUploader that finds a cache entry for the
\* id it picked starts no download or upload, and the state it picked is
\* ready to send afterwards; an active state that carries a cache entry is
\* not handed out by get_next_for_media_download or get_next_for_media_upload.
C30_CacheHitIsFinal ==
    [][\A id \in DOMAIN active_states :
           /\ CacheHit(id) =>
                  /\ downloaders' = downloaders /\ uploaders' = uploaders
                  /\ is_ready_to_send(ActiveObj(id)')
           /\ ActiveObj(id).cache_entry =>
                  ~DownloadHanded(id) /\ ~UploadHanded(id)]_vars

\* A MediaDownloader found a cache entry for an active state: the state is
\* still marked as downloading, has no file, and is ready to send by its
\* cache entry alone.
C30_Witness ==
    \E id \in DOMAIN active_states :
        /\ ActiveObj(id).cache_entry /\ ActiveObj(id).media_downloading
        /\ ~ActiveObj(id).dl_file /\ ActiveObj(id).uploaded_media = "none"
        /\ Count(downloaders, id) = 0

\* C31: whatever adds and removes came before, the query as_combined_query()
\* returns matches a target exactly when no query currently in the blocklist
\* matches it; with an empty blocklist it matches every target.
C31_CombinedQueryIsCurrent ==
    evaluated.kind = "combined" =>
        evaluated.result =
            (\A query \in evaluated.blocklists :
                 ~matches_submission(WordQuery(query), evaluated.target))

\* The combined query of a blocklist of two queries, built after both were
\* added, rejected a target that one of them matches.
C31_Witness ==
    /\ evaluated.kind = "combined"
    /\ evaluated.blocklists = {"fox", "cat"}
    /\ evaluated.target = {"cat"}
    /\ ~evaluated.result
    /\ blocklist.combined_query # NoQuery

\* pop_next_ready_to_send returns a state: the pool's lowest state is ready to
\* send and its id is in active_states.
PopReturnsState ==
    /\ submission_state # << >>
    /\ is_ready_to_send(submission_state[next_ready_key])
    /\ next_ready_key \in DOMAIN active_states

\* The objects active_states holds, by id.
ActiveObjects(active, states) ==
    [id \in DOMAIN active |-> IF active[id].same THEN states[id] ELSE active[id].obj]

\* submission_state and active_states after pop_next_ready_to_send returned
\* a state and return_populated_state was called with it at once.
PoppedAndReturned ==
    LET id == next_ready_key
        state == submission_state[id]
        states_popped == Del(submission_state, id)
        active_popped == Del(active_states, id)
        states_returned == Put(states_popped, state.sub_id, state)
        active_returned == IF state.full_data
                           THEN Put(active_popped, state.sub_id, SameRef)
                           ELSE active_popped
    IN  [submission_state |-> states_returned,
         active_states |-> ActiveObjects(active_returned, states_returned)]

PoolRestored ==
    /\ PoppedAndReturned.submission_state = submission_state
    /\ PoppedAndReturned.active_states = ActiveObjects(active_states, submission_state)

\* C32: pop_next_ready_to_send followed by return_populated_state of the
\* popped state leaves submission_state and active_states with the contents
\* they had before the pop.
C32_PopThenReturnRestores == PopReturnsState => PoolRestored

\* The same for a popped state that has its full_data; a popped state
\* without full_data goes back to submission_state only.
C32_PopThenReturnRestoresWithData ==
    (PopReturnsState /\ submission_state[next_ready_key].full_data) => PoolRestored

\* C33: with fair workers and nothing failing, every id added with
\* add_sub_id eventually leaves the pool: its state is removed (nothing
\* matches) or popped by the Sender.
C33_EveryIdLeavesThePool ==
    \A id \in IdsC33 :
        [](id \in DOMAIN submission_state => <>(id \notin DOMAIN submission_state))

\* A step in which pop_next_ready_to_send returned a state to the Sender.
PopReturned ==
    /\ sender.pc \in {"idle", "backoff"}
    /\ sender'.pc \in {"sending", "failed"}
    /\ sender'.state.sub_id # 0

\* C34: every state pop_next_ready_to_send returns has its full_data and
\* its matching_subscriptions, the states finalized without media after
\* TooManyRefresh included.
C34_PoppedHasData ==
    [][PopReturned =>
           /\ sender'.state.full_data
           /\ sender'.state.matching_subscriptions # {}]_vars

\* A step in which return_populated_state put the state the Sender held back
\* in active_states.
ReturnedToActive ==
    /\ sender.pc \in {"sending", "failed"} /\ sender'.pc = "idle"
    /\ sender.state.sub_id \in DOMAIN active_states' \ DOMAIN active_states

ReturnedFor(d) ==
    /\ Attempting(d)
    /\ sender'.pc = "sending" /\ sender'.dest = 0 /\ d \notin sender'.todo

\* What the pass of the loop that returned did.
SentNow(d) == sender'.state.sent_to = Append(sender.state.sent_to, d)
PausedNow(d) == d \in paused' /\ d \notin paused
RevertedNow == refresh_count' # refresh_count

HowMany(sent, was_paused, reverted) ==
    (IF sent THEN 1 ELSE 0) + (IF was_paused THEN 1 ELSE 0) + (IF reverted THEN 1 ELSE 0)

\* C36: when _try_send_subscription_update returns without raising for
\* destination D, exactly one of these happened: D was appended to sent_to,
\* the subscriptions of D were paused, or the submission was reverted.
C36_ReturnIsSentPausedOrReverted ==
    [][\A d \in Dests :
           ReturnedFor(d) => HowMany(SentNow(d), PausedNow(d), RevertedNow) = 1]_vars

\* C36 (amended): the pass after which it returns did exactly one of the
\* three, or it was the last of the SEND_ATTEMPTS passes and ended in a
\* flood-wait: D is then given up with nothing recorded.
C36_ReturnIsSentPausedRevertedOrGivenUp ==
    [][\A d \in Dests :
           ReturnedFor(d) =>
               \/ HowMany(SentNow(d), PausedNow(d), RevertedNow) = 1
               \/ /\ HowMany(SentNow(d), PausedNow(d), RevertedNow) = 0
                  /\ sender.send_attempt + 1 = SEND_ATTEMPTS]_vars

\* Destination 1 was given up after SEND_ATTEMPTS flood-waits: the Sender is
\* at destination 2 and destination 1 is neither in sent_to nor paused.
C36_Witness ==
    /\ sender.pc = "sending" /\ sender.todo = {2} /\ sender.dest = 0
    /\ sender.state.matching_subscriptions = {1, 2}
    /\ sender.state.sent_to = << >>
    /\ paused = {}
    /\ Count(refresh_count, sender.state.sub_id) = 0

\* The id waits in the fetch queue or a DataFetcher holds it.
FetchScheduled(id) ==
    \/ id \in SeqToSet(new_queue) \cup SeqToSet(refresh_queue)
    \/ \E w \in BagToSet(data_fetchers) : w.sub_id = id

\* C37: every state of submission_state that has no full_data and is not
\* ready to send has its id in the fetch queue or held by a DataFetcher.
C37_UnfetchedIsScheduled ==
    \A id \in DOMAIN submission_state :
        (~submission_state[id].full_data /\ ~is_ready_to_send(submission_state[id]))
            => FetchScheduled(id)

\* C38: whenever the state with the lowest key of submission_state is ready
\* to send, its id is in active_states, so pop_next_ready_to_send can delete
\* it from both maps.
C38_ReadyLowestIsActive ==
    (submission_state # << >> /\ is_ready_to_send(submission_state[next_ready_key]))
        => next_ready_key \in DOMAIN active_states

\* C39: a sub_id is in the hands of at most one MediaDownloader and of at
\* most one MediaUploader, and never of a downloader and an uploader at the
\* same time.
C39_OneMediaWorkerPerId ==
    \A id \in BagToSet(downloaders) \cup BagToSet(uploaders) :
        /\ CopiesIn(id, downloaders) <= 1
        /\ CopiesIn(id, uploaders) <= 1
        /\ ~(BagIn(id, downloaders) /\ BagIn(id, uploaders))

\* How often the id occurs in the two tiers of the fetch queue together.
Occurrences(id) ==
    Cardinality({i \in DOMAIN new_queue : new_queue[i] = id})
        + Cardinality({i \in DOMAIN refresh_queue : refresh_queue[i] = id})

\* C40: a sub_id occurs at most once in the fetch queue, the new and the
\* refresh tier taken together.
C40_QueuedAtMostOnce ==
    \A id \in SeqToSet(new_queue) \cup SeqToSet(refresh_queue) : Occurrences(id) <= 1

====
